---- MODULE Spec2Model ----
(***************************************************************************)
(* Model of the Fyers volume spike detector (src/fyers.py, src/health.py).  *)
(*                                                                         *)
(*   SpecTick      the tick handler VolumeSpikeDetector.on_message, fed    *)
(*                 with arbitrary messages while the wall clock advances.  *)
(*   SpecScenario  the same handler fed with the volume sequence of the    *)
(*                 specification's scenario for one symbol, interleaved    *)
(*                 with ticks of another symbol.                           *)
(*   SpecServices  the same handler while the Google sheet and the         *)
(*                 Telegram API answer, refuse or fail.                    *)
(*   SpecSup       supervisor_loop, the run controller functions and the   *)
(*                 stream worker threads they start.                       *)
(*   SpecSupFair   SpecSup with every sleep of the supervisor ending and   *)
(*                 every worker thread being scheduled.                    *)
(*   SpecSupExc    SpecSup with calls of supervisor_loop raising.          *)
(*   SpecHealth    SpecSup with the manual restart of health.py.           *)
(*   SpecMonitor   health.py: the detector subprocess, monitor_detector,   *)
(*                 delayed_start and the two POST handlers.                *)
(*   SpecFunctions the window gate, the market-hours check, the token      *)
(*                 validation and format_summary_message applied to        *)
(*                 arguments.                                              *)
(*   SpecMarketEnd check_market_end called at any time of day.             *)
(*   SpecAuth      the stored access token and authenticate().             *)
(*   SpecSummary   the summary_scheduler thread.                           *)
(*   SpecOps       the run controller functions _start_stream_once and     *)
(*                 _stop_stream_once called in any order.                  *)
(***************************************************************************)
EXTENDS Integers, Sequences, FiniteSets, TLC

VARIABLES
    clock,                      \* wall clock, seconds since midnight
    _market_end_message_sent,   \* fyers.py:61
    stop_event,                 \* _stop_event (fyers.py:60), shared with the detector
    end_messages,               \* "Market Session Ended" messages sent (fyers.py:785)
    ticks,                      \* one record per symbol-feed message handled by on_message
    last_other,                 \* the latest other message handled by on_message
    elapsed,                    \* clock steps taken so far
    _running_flag,              \* fyers.py:59
    detector,                   \* supervisor_loop's local `detector` is not None
    sup_pc,                     \* position of supervisor_loop
    sup_ret,                    \* where the supervisor continues after _stop_stream_once
    auth_due,                   \* more than AUTH_CHECK_INTERVAL has passed since last_auth_check
    window,                     \* what _inside_window_ist() reads
    market,                     \* the worker threads' local clock: "before", "open", "after"
    workers,                    \* phase of every stream worker thread started so far
    start_log,                  \* one record per call of _start_stream_once
    init_log,                   \* per worker, what its calls of detector.initialize() returned
    signalled,                  \* the workers that were alive when _stop_stream_once set the event
    ran_at_close,               \* the window is closed and _running_flag was set when it closed
    now,                        \* health.py: time.time(), in seconds
    detector_process,           \* health.py:41: "None", or a Popen whose process is "running" or "exited"
    orphans,                    \* running detector processes health.py holds no reference to
    detector_starting,          \* health.py:42
    restart_count,              \* health.py:43
    last_restart_time,          \* health.py:45
    current_time,               \* monitor_detector's local current_time
    mon_pc,                     \* position of monitor_detector
    ds_pc,                      \* position of delayed_start
    req_pc,                     \* position of the request handler being served
    requests,                   \* POST requests served so far
    halted,                     \* the monitor announced the end of auto-restart, no manual restart since
    paused_at,                  \* when the monitor last announced it, -1 if never
    resumed_at,                 \* when the monitor first restarted after that, -1 if not yet
    resumed_attempt,            \* the attempt number it printed then
    stopped,                    \* /stop-detector stopped the detector, no /restart-detector since
    call,                       \* the latest call of a utility function: arguments and result
    auth,                       \* the stored Fyers token: module globals, JSON file, latest authenticate()
    sched                       \* summary_scheduler: its clock, locals, stop flag and latest send attempts

tickVars == <<clock, _market_end_message_sent, end_messages, ticks, last_other, elapsed>>
supVars  == <<_running_flag, detector, sup_pc, sup_ret, auth_due, window, market,
              workers, start_log, init_log, signalled, ran_at_close>>
procVars == <<detector_process, orphans, detector_starting>>
monVars  == <<now, restart_count, last_restart_time, current_time, mon_pc>>
reqVars  == <<req_pc, requests>>
histVars == <<halted, paused_at, resumed_at, resumed_attempt, stopped>>
healthVars == <<procVars, monVars, reqVars, histVars, ds_pc>>
fyersVars == <<tickVars, stop_event, supVars>>
auxVars  == <<call, auth, sched>>
vars     == <<fyersVars, healthVars, auxVars>>

(***************************************************************************)
(* Configuration (fyers.py:49-50, 305-307).  Times of day "HH:MM" are      *)
(* minutes since midnight: zero-padded strings compare as these numbers.   *)
(***************************************************************************)
INDIVIDUAL_TRADE_THRESHOLD == 3000000
MIN_VOLUME_SPIKE == 1000
MARKET_START_TIME == 9 * 60 + 13
MARKET_END_TIME == 16 * 60
SCHEDULING_ENABLED == TRUE
CRORE == 10000000

(***************************************************************************)
(* Bounds of the model.                                                    *)
(***************************************************************************)
MaxTicks == 2        \* symbol-feed messages handled in one run of SpecTick
MaxElapse == 2       \* clock steps in one run
ClockStep == 30      \* seconds per clock step
MaxNoise == 2        \* ticks of the other symbol in SpecScenario
MaxWorkers == 2      \* stream worker threads started in one run
MaxCalls == 3        \* calls of _start_stream_once in one run of SpecOps

\* The runs start in the last minute of the market session ("16:00"), so that
\* the session ends while ticks are still arriving.
ClockStart == MARKET_END_TIME * 60

Symbols == {"X", "Y"}

\* (ltp, last_traded_qty) pairs carried by the symbol-feed messages.
TickValues ==
    { <<100, 1000>>, <<100, 30000>>, <<100, 5000000>>, <<3000, 1000>>,
      <<0, 5000000>>, <<-100, 1000>>, <<-100, -50000>> }

AllKeys == {"symbol", "ltp", "last_traded_qty"}

SymbolFeed(s, pv) ==
    [isDict |-> TRUE, type |-> "sf", keys |-> AllKeys, numeric |-> TRUE,
     symbol |-> s, ltp |-> pv[1], last_traded_qty |-> pv[2]]

TickMessages == { SymbolFeed(s, pv) : s \in Symbols, pv \in TickValues }

\* Messages that are not well-formed ticks: not a dict, a control type or
\* another type, a key missing, or a price that is no number (the fields
\* symbol, ltp and last_traded_qty stand for what such a message would
\* carry were it read as a tick).
OtherMessages ==
    { [isDict |-> FALSE, type |-> "", keys |-> {}, numeric |-> TRUE,
       symbol |-> "X", ltp |-> 100, last_traded_qty |-> 5000000] }
    \cup { [isDict |-> TRUE, type |-> t, keys |-> AllKeys, numeric |-> TRUE,
            symbol |-> "X", ltp |-> 100, last_traded_qty |-> 5000000]
              : t \in {"cn", "ful", "sub", "dp"} }
    \cup { [isDict |-> TRUE, type |-> "sf", keys |-> AllKeys \ {k}, numeric |-> TRUE,
            symbol |-> "X", ltp |-> 100, last_traded_qty |-> 5000000]
              : k \in AllKeys }
    \cup { [isDict |-> TRUE, type |-> "sf", keys |-> AllKeys, numeric |-> FALSE,
            symbol |-> "X", ltp |-> 100, last_traded_qty |-> 5000000] }

Messages == TickMessages \cup OtherMessages

(***************************************************************************)
(* Scheduling utilities.                                                   *)
(***************************************************************************)
\* strftime("%H:%M") of a clock reading
hhmm(clk) == clk \div 60

is_market_time(clk) ==
    IF ~SCHEDULING_ENABLED THEN TRUE
    ELSE MARKET_START_TIME <= hhmm(clk) /\ hhmm(clk) <= MARKET_END_TIME

\* check_market_end never reporting the end of the session
check_market_end_never(clk) == FALSE

\* check_market_end: the value it returns, the flag it leaves, and whether it
\* sends the "Market Session Ended" message.
check_market_end(clk) == SCHEDULING_ENABLED /\ ~is_market_time(clk)

check_market_end_flag(clk, sent) ==
    IF ~SCHEDULING_ENABLED THEN sent
    ELSE IF ~is_market_time(clk) THEN TRUE
    ELSE FALSE

\* the message sent whenever the market is closed, whatever the flag
check_market_end_sends_always(clk, sent) ==
    SCHEDULING_ENABLED /\ ~is_market_time(clk)

check_market_end_sends(clk, sent) ==
    SCHEDULING_ENABLED /\ ~is_market_time(clk) /\ ~sent

(***************************************************************************)
(* VolumeSpikeDetector.on_message                                          *)
(***************************************************************************)
IsControl(m) == m.type \in {"cn", "ful", "sub"}

IsSymbolFeed(m) == m.type = "sf" /\ AllKeys \subseteq m.keys

TradeValue(volume, price) == volume * price

\* a comparison against zero instead of the threshold
MeetsThresholdAnyPositive(trade_value) == trade_value > 0

MeetsThreshold(trade_value) == trade_value >= INDIVIDUAL_TRADE_THRESHOLD

\* the dict handed to add_to_sheet and send_telegram_alert
SpikeData(m, clk) ==
    [time |-> clk,
     symbol |-> m.symbol,
     volume |-> m.last_traded_qty,
     price |-> m.ltp,
     value_crores |-> [num |-> TradeValue(m.last_traded_qty, m.ltp), den |-> CRORE],
     type |-> "Individual Trade"]

\* What the Google Sheets client and the Telegram API do with one request.
SheetOutcomes == {"ok", "no_worksheet", "raises"}

TelegramOutcomes == {"ok", "rejected", "raises"}

\* add_to_sheet letting the exception of append_row escape
add_to_sheet_uncaught(sheet) ==
    [returns |-> sheet = "ok", raised |-> sheet = "raises"]

\* add_to_sheet: False without a worksheet, False when append_row raises
\* (the exception is caught inside), True otherwise
add_to_sheet(sheet) ==
    [returns |-> sheet = "ok", raised |-> FALSE]

\* send_telegram_alert: the value of TelegramHandler.send_message, True on
\* status 200, False on any other status and on an exception
send_telegram_alert(telegram) ==
    [returns |-> telegram = "ok", raised |-> FALSE]

\* The calls of add_to_sheet and of send_telegram_alert one message causes
\* once it is past the market-hours check.
Emits(m) ==
    /\ m.isDict
    /\ ~IsControl(m)
    /\ IsSymbolFeed(m)
    /\ m.numeric
    /\ MeetsThreshold(TradeValue(m.last_traded_qty, m.ltp))

NoCalls ==
    [persisted |-> <<>>, notified |-> <<>>,
     persist_results |-> <<>>, notify_results |-> <<>>,
     sheet |-> "unused", telegram |-> "unused", raised |-> FALSE]

\* line 2002: volume * price, and the formatting and comparison of the
\* product, raise for a price or a quantity that is no number
Raises(m) == m.isDict /\ ~IsControl(m) /\ IsSymbolFeed(m) /\ ~m.numeric

\* on_message without its try / except: what is raised escapes
except_Exception_missing(raised) == raised

\* lines 1972, 2039-2042: `try: ... except Exception` around the whole body;
\* the value is whether an exception raised inside escapes on_message
except_Exception(raised) == FALSE

\* lines 2036-2042: the two calls in a row; an exception escaping the first
\* lands in the handler's `except` and skips the second
ProcessMessage(m, clk, sheet, telegram) ==
    IF Emits(m)
    THEN LET p == add_to_sheet(sheet)
             n == send_telegram_alert(telegram)
         IN  [persisted |-> <<SpikeData(m, clk)>>,
              persist_results |-> IF p.raised THEN <<>> ELSE <<p.returns>>,
              notified |-> IF p.raised THEN <<>> ELSE <<SpikeData(m, clk)>>,
              notify_results |-> IF p.raised \/ n.raised THEN <<>> ELSE <<n.returns>>,
              sheet |-> sheet,
              telegram |-> IF p.raised THEN "unused" ELSE telegram,
              raised |-> p.raised \/ n.raised]
    ELSE [NoCalls EXCEPT !.raised = Raises(m)]

TickRecord(m, clk, out) ==
    [symbol |-> m.symbol, price |-> m.ltp, volume |-> m.last_traded_qty,
     at |-> clk, open |-> ~(SCHEDULING_ENABLED /\ ~is_market_time(clk)),
     persisted |-> out.persisted, notified |-> out.notified,
     persist_results |-> out.persist_results, notify_results |-> out.notify_results,
     sheet |-> out.sheet, telegram |-> out.telegram,
     stopped |-> check_market_end(clk),
     escaped |-> except_Exception(out.raised)]

IsTick(m) == m.isDict /\ IsSymbolFeed(m) /\ m.numeric

\* why on_message does not read a message as a tick
Kind(m) ==
    IF ~m.isDict THEN "not_dict"
    ELSE IF IsControl(m) THEN "control"
    ELSE IF m.type # "sf" THEN "other_type"
    ELSE IF ~(AllKeys \subseteq m.keys) THEN "missing_key"
    ELSE "not_numeric"

\* no other message handled so far
NoOther ==
    [kind |-> "none", persists |-> 0, notifies |-> 0, escaped |-> FALSE]

OtherRecord(m, clk, out) ==
    [kind |-> Kind(m),
     persists |-> Len(out.persisted), notifies |-> Len(out.notified),
     escaped |-> except_Exception(out.raised)]

on_message(m, sheet, telegram) ==
    /\ _market_end_message_sent' = check_market_end_flag(clock, _market_end_message_sent)
    /\ end_messages' = IF check_market_end_sends(clock, _market_end_message_sent)
                       THEN end_messages + 1 ELSE end_messages
    /\ LET out == IF check_market_end(clock)
                  THEN NoCalls
                  ELSE ProcessMessage(m, clock, sheet, telegram)
       IN  /\ stop_event' = (stop_event \/ check_market_end(clock))
           /\ ticks' = IF IsTick(m) THEN Append(ticks, TickRecord(m, clock, out))
                       ELSE ticks
           /\ last_other' = IF IsTick(m) THEN last_other
                            ELSE OtherRecord(m, clock, out)
    /\ UNCHANGED <<clock, elapsed, supVars, healthVars, auxVars>>

\* any message, the sheet and the Telegram API answering every request
OnMessage ==
    \E m \in Messages :
        /\ IsTick(m) => Len(ticks) < MaxTicks
        /\ on_message(m, "ok", "ok")

\* time passes
Elapse ==
    /\ elapsed < MaxElapse
    /\ elapsed' = elapsed + 1
    /\ clock' = clock + ClockStep
    /\ UNCHANGED <<_market_end_message_sent, end_messages, ticks, last_other, stop_event, supVars,
                   healthVars, auxVars>>

\* no utility function has been called yet
NoCall == [fn |-> "none"]

\* fyers.py has not been loaded yet
NotLoaded == [loaded |-> FALSE]

\* The process has just loaded FYERS_ACCESS_TOKEN and FYERS_TOKEN_TIMESTAMP
\* from fyers_access_token.json (fyers.py:223-231); no authenticate() yet.
AuthIdle(token, timestamp, time) ==
    [loaded |-> TRUE,
     FYERS_ACCESS_TOKEN |-> token, FYERS_TOKEN_TIMESTAMP |-> timestamp,
     file_token |-> token, file_timestamp |-> timestamp,
     time |-> time, calls |-> 0,
     last |-> [kind |-> "none", requested |-> FALSE, saved |-> FALSE]]

\* no scheduled send attempt yet
NoAttempt == [date |-> -1, time |-> -1, ok |-> FALSE]

\* the summary_scheduler thread has not been started yet
NotStarted == [pc |-> "start"]

\* summary_scheduler entering its loop (fyers.py:1664-1668, 1136), the clock
\* reading `minute` of day 0
SchedIdle(minute) ==
    [pc |-> "loop", date |-> 0, minute |-> minute,
     last_sent_date |-> -1, last_sent_time |-> -1,
     stop_sending_today |-> FALSE,
     done_date |-> -1, failures |-> 0,
     attempt |-> NoAttempt, prev_attempt |-> NoAttempt]

AuxIdle ==
    /\ call = NoCall
    /\ auth = NotLoaded
    /\ sched = NotStarted

\* health.py:40-45 and the threads started at 817-818, before any has run;
\* time.time() is far more than 300 seconds
HealthIdle ==
    /\ now = 1000
    /\ detector_process = "None"
    /\ orphans = 0
    /\ detector_starting = FALSE
    /\ restart_count = 0
    /\ last_restart_time = 0
    /\ current_time = 0
    /\ mon_pc = "boot"
    /\ ds_pc = "sleep"
    /\ req_pc = "idle"
    /\ requests = 0
    /\ halted = FALSE
    /\ paused_at = -1
    /\ resumed_at = -1
    /\ resumed_attempt = 0
    /\ stopped = FALSE

SupIdle ==
    /\ _running_flag = FALSE
    /\ detector = FALSE
    /\ sup_pc = "top"
    /\ sup_ret = "top"
    /\ auth_due = FALSE
    /\ window = TRUE
    /\ market = "open"
    /\ workers = <<>>
    /\ start_log = <<>>
    /\ init_log = <<>>
    /\ signalled = {}
    /\ ran_at_close = FALSE
    /\ HealthIdle
    /\ AuxIdle

InitTick ==
    /\ clock = ClockStart
    /\ _market_end_message_sent = FALSE
    /\ stop_event = FALSE
    /\ end_messages = 0
    /\ ticks = <<>>
    /\ last_other = NoOther
    /\ elapsed = 0
    /\ SupIdle

NextTick == OnMessage \/ Elapse

SpecTick == InitTick /\ [][NextTick]_vars

\* Ticks below and at the threshold while the sheet and the Telegram API
\* answer, refuse or fail.
ServiceMessages ==
    { SymbolFeed(s, pv) : s \in {"X"}, pv \in {<<100, 1000>>, <<100, 30000>>} }
    \cup { m \in OtherMessages : ~m.isDict }

OnMessageServices ==
    \E m \in ServiceMessages, sheet \in SheetOutcomes, telegram \in TelegramOutcomes :
        /\ IsTick(m) => Len(ticks) < MaxTicks
        /\ on_message(m, sheet, telegram)

NextServices == OnMessageServices \/ Elapse

SpecServices == InitTick /\ [][NextServices]_vars

(***************************************************************************)
(* Run controller (fyers.py:59-115) and stream worker threads.             *)
(*                                                                         *)
(* A worker thread is in one of the phases                                 *)
(*   "init"         detector.initialize(): authentication, sheet set-up    *)
(*   "wait_market"  start_monitoring: wait_for_market_start()              *)
(*   "monitor"      connected, in the loop polling stop_event every second *)
(*   "monitor_down" in that loop after the socket reported an error or its *)
(*                  closure to on_error / on_close                         *)
(*   "closing"      fyers_ws.close()                                       *)
(*   "exited"       _stream_worker has returned after the loop             *)
(*   "close_error"  the same, fyers_ws.close() having raised               *)
(*   "failed"       _stream_worker has returned because initialize()       *)
(*                  failed or start_monitoring raised before the loop      *)
(*   "killed"       the process of the thread was terminated               *)
(* Every worker holds the same Event object, _stop_event.                  *)
(***************************************************************************)
WorkerIds == 1..Len(workers)

Done == {"exited", "close_error", "failed", "killed"}

InLoop == {"monitor", "monitor_down"}

Alive == { w \in WorkerIds : workers[w] \notin Done }

\* _start_stream_once without its `if _running_flag: return False`
StartOutcomeUnguarded(flag, event) ==
    [flag |-> TRUE, event |-> FALSE, spawn |-> TRUE, returns |-> TRUE]

\* what _start_stream_once does to _running_flag and _stop_event, whether it
\* starts a thread, and what it returns
StartOutcome(flag, event) ==
    IF flag
    THEN [flag |-> flag, event |-> event, spawn |-> FALSE, returns |-> FALSE]
    ELSE [flag |-> TRUE, event |-> FALSE, spawn |-> TRUE, returns |-> TRUE]

\* _start_stream_once()
_start_stream_once ==
    LET out == StartOutcome(_running_flag, stop_event)
    IN  /\ out.spawn => Len(workers) < MaxWorkers
        /\ _running_flag' = out.flag
        /\ stop_event' = out.event
        /\ workers' = IF out.spawn THEN Append(workers, "init") ELSE workers
        /\ init_log' = IF out.spawn THEN Append(init_log, <<>>) ELSE init_log
        /\ start_log' = Append(start_log,
              [flag_before |-> _running_flag, flag_after |-> out.flag,
               event_before |-> stop_event, event_after |-> out.event,
               threads_before |-> Len(workers),
               threads_after |-> IF out.spawn THEN Len(workers) + 1 ELSE Len(workers),
               returns |-> out.returns])

\* The loop of start_monitoring sleeps one second between two polls, every
\* sleep of the caller lasts at least two seconds: when the caller wakes, a
\* worker that was in the loop with the stop event set or the market closed
\* has left it.
MonitorsPolled ==
    \A w \in WorkerIds :
        workers[w] \in InLoop => (~stop_event /\ market = "open")

\* _stop_stream_once() up to its sleep: the caller continues at `ret` once
\* the call has returned.
StopBegin(ret) ==
    IF _running_flag
    THEN /\ stop_event' = TRUE
         /\ signalled' = signalled \cup Alive
         /\ sup_pc' = "stop_sleep"
         /\ sup_ret' = ret
    ELSE /\ sup_pc' = ret
         /\ UNCHANGED <<stop_event, signalled, sup_ret>>

\* _stop_stream_once() joining the worker threads instead of sleeping
StopWakeJoins ==
    /\ sup_pc = "stop_sleep"
    /\ Alive = {}
    /\ _running_flag' = FALSE
    /\ sup_pc' = sup_ret
    /\ UNCHANGED <<auxVars, healthVars, tickVars, init_log, signalled, ran_at_close, stop_event, detector, sup_ret,
                   auth_due, window, market, workers, start_log>>

\* _stop_stream_once() after time.sleep(2)
StopWake ==
    /\ sup_pc = "stop_sleep"
    /\ MonitorsPolled
    /\ _running_flag' = FALSE
    /\ sup_pc' = sup_ret
    /\ UNCHANGED <<auxVars, healthVars, tickVars, init_log, signalled, ran_at_close, stop_event, detector, sup_ret, auth_due, window, market,
                   workers, start_log>>

(***************************************************************************)
(* _stream_worker, one action per blocking step.                           *)
(***************************************************************************)
SetPhase(w, ph) == workers' = [workers EXCEPT ![w] = ph]

\* What detector.initialize() meets: get_access_token() yields a token or
\* None, initialize_sheets() returns True or False; an exception in either
\* is caught and counts as its failure.
InitOutcomes == {"ok", "no_token", "no_sheets"}

\* initialize() going on to the sheets result only, whatever the token
initialize_ignores_token(outcome) == outcome # "no_sheets"

\* VolumeSpikeDetector.initialize(): False without a token, False when the
\* sheet set-up fails, True otherwise
initialize(outcome) == outcome \notin {"no_token", "no_sheets"}

\* a worker that calls initialize() again after a failure
WorkerInitRetries(w) ==
    /\ workers[w] \in {"init", "failed"}
    /\ Len(init_log[w]) < 2
    /\ \E outcome \in InitOutcomes :
           /\ SetPhase(w, IF initialize(outcome) THEN "wait_market" ELSE "failed")
           /\ init_log' = [init_log EXCEPT ![w] = Append(@, outcome)]
    /\ UNCHANGED <<auxVars, healthVars, tickVars, signalled, ran_at_close, stop_event, _running_flag, detector,
                   sup_pc, sup_ret, auth_due, window, market, start_log>>

\* _stream_worker, lines 97-106: one call of detector.initialize(); on True
\* the worker goes on to start_monitoring(), on False it returns
WorkerInit(w) ==
    /\ workers[w] = "init"
    /\ \E outcome \in InitOutcomes :
           /\ SetPhase(w, IF initialize(outcome) THEN "wait_market" ELSE "failed")
           /\ init_log' = [init_log EXCEPT ![w] = Append(@, outcome)]
    /\ UNCHANGED <<auxVars, healthVars, tickVars, signalled, ran_at_close, stop_event, _running_flag, detector,
                   sup_pc, sup_ret, auth_due, window, market, start_log>>

\* wait_for_market_start() returns once the worker's clock is past the market
\* start; then the socket is connected (an exception ends start_monitoring).
WorkerConnect(w) ==
    /\ workers[w] = "wait_market"
    /\ ~SCHEDULING_ENABLED \/ market # "before"
    /\ \E ok \in BOOLEAN : SetPhase(w, IF ok THEN "monitor" ELSE "failed")
    /\ UNCHANGED <<auxVars, healthVars, tickVars, init_log, signalled, ran_at_close, stop_event, _running_flag, detector, sup_pc, sup_ret,
                   auth_due, window, market, start_log>>

\* The socket reports an error or its closure: on_error / on_close run, they
\* print and return.
WorkerFeedDown(w) ==
    /\ workers[w] = "monitor"
    /\ SetPhase(w, "monitor_down")
    /\ UNCHANGED <<auxVars, healthVars, tickVars, init_log, signalled, ran_at_close, stop_event, _running_flag, detector,
                   sup_pc, sup_ret, auth_due, window, market, start_log>>

\* The socket was created with reconnect=True: it may connect again.
WorkerFeedUp(w) ==
    /\ workers[w] = "monitor_down"
    /\ SetPhase(w, "monitor")
    /\ UNCHANGED <<auxVars, healthVars, tickVars, init_log, signalled, ran_at_close, stop_event, _running_flag, detector,
                   sup_pc, sup_ret, auth_due, window, market, start_log>>

\* the loop of start_monitoring sees the stop event or the end of the market
WorkerPoll(w) ==
    /\ workers[w] \in InLoop
    /\ stop_event \/ (SCHEDULING_ENABLED /\ market # "open")
    /\ SetPhase(w, "closing")
    /\ UNCHANGED <<auxVars, healthVars, tickVars, init_log, signalled, ran_at_close, stop_event, _running_flag, detector, sup_pc, sup_ret,
                   auth_due, window, market, start_log>>

\* on_message on the socket's thread while the market is closed
WorkerMessage(w) ==
    /\ workers[w] \in {"monitor", "closing"}
    /\ SCHEDULING_ENABLED /\ market # "open"
    /\ stop_event' = TRUE
    /\ UNCHANGED <<auxVars, healthVars, tickVars, init_log, signalled, ran_at_close, _running_flag, detector, sup_pc, sup_ret, auth_due,
                   window, market, workers, start_log>>

\* fyers_ws.close() returns or raises; _stream_worker returns
WorkerClosed(w) ==
    /\ workers[w] = "closing"
    /\ \E ok \in BOOLEAN : SetPhase(w, IF ok THEN "exited" ELSE "close_error")
    /\ UNCHANGED <<auxVars, healthVars, tickVars, init_log, signalled, ran_at_close, stop_event, _running_flag, detector, sup_pc, sup_ret,
                   auth_due, window, market, start_log>>

(***************************************************************************)
(* The clocks.  _inside_window_ist reads the time in Asia/Kolkata, the     *)
(* worker's is_market_time reads the naive local time.                     *)
(***************************************************************************)
\* Authentication waits TELEGRAM_AUTH_TIMEOUT (300 s) for the auth code and
\* closing a socket is a matter of seconds: a worker found in initialize() or
\* in fyers_ws.close() has left it an hour later.
Settled == \A w \in WorkerIds : workers[w] \notin {"init", "closing"}

\* a window check that always passes
_inside_window_always == TRUE

\* what _inside_window_ist() returns
_inside_window_ist == window

\* The window closes at MARKET_END_TIME and opens again at MARKET_START_TIME
\* of the next day, hours later: by then the supervisor, which looks at the
\* window every 30 or 60 seconds, has seen it closed.
WindowChanges ==
    /\ ~window => (Settled /\ MonitorsPolled /\ sup_pc = "top" /\ ~detector)
    /\ window' = ~window
    /\ ran_at_close' = (window /\ _running_flag)
    /\ UNCHANGED <<auxVars, healthVars, tickVars, init_log, signalled, stop_event, _running_flag, detector, sup_pc, sup_ret,
                   auth_due, market, workers, start_log>>

NextMarket(m) ==
    CASE m = "before" -> "open"
      [] m = "open" -> "after"
      [] OTHER -> "before"

\* The market opens, ends and the day turns hours apart: a worker that was in
\* the loop of start_monitoring at one change has polled before the next.
MarketChanges ==
    /\ MonitorsPolled
    /\ market' = NextMarket(market)
    /\ UNCHANGED <<auxVars, healthVars, tickVars, init_log, signalled, ran_at_close, stop_event, _running_flag, detector, sup_pc, sup_ret,
                   auth_due, window, workers, start_log>>

\* While the supervisor sleeps between two iterations, the time since
\* last_auth_check grows beyond AUTH_CHECK_INTERVAL (3600 s).
HourPasses ==
    /\ sup_pc = "top"
    /\ ~auth_due
    /\ MonitorsPolled
    /\ Settled
    /\ auth_due' = TRUE
    /\ UNCHANGED <<auxVars, healthVars, tickVars, init_log, signalled, ran_at_close, stop_event, _running_flag, detector, sup_pc, sup_ret,
                   window, market, workers, start_log>>

(***************************************************************************)
(* supervisor_loop (fyers.py:123-172)                                      *)
(***************************************************************************)
\* detector.authenticator.is_authenticated of the supervisor's own detector:
\* FyersAuthenticator.__init__ sets it False and the supervisor never calls
\* initialize() on that instance.
SupervisorDetectorAuthenticated == FALSE

\* lines 134-148: the head of an iteration; "entry" is the first iteration,
\* entered right after last_auth_check = time.time() (line 129), "top" every
\* later one, entered after time.sleep(30) or time.sleep(60)
SupTop ==
    /\ sup_pc \in {"entry", "top"}
    /\ MonitorsPolled
    /\ IF SCHEDULING_ENABLED /\ ~_inside_window_ist
       THEN IF detector
            THEN StopBegin("outside")
            ELSE sup_pc' = "outside" /\ UNCHANGED <<stop_event, signalled, sup_ret>>
       ELSE IF ~detector \/ ~_running_flag
            THEN StopBegin("start")
            ELSE sup_pc' = "auth" /\ UNCHANGED <<stop_event, signalled, sup_ret>>
    /\ UNCHANGED <<auxVars, healthVars, tickVars, init_log, ran_at_close, _running_flag, detector, auth_due, window, market, workers,
                   start_log>>

\* lines 141-143: detector = None; time.sleep(60); continue
SupOutside ==
    /\ sup_pc = "outside"
    /\ detector' = FALSE
    /\ sup_pc' = "top"
    /\ UNCHANGED <<auxVars, healthVars, tickVars, init_log, signalled, ran_at_close, stop_event, _running_flag, sup_ret, auth_due, window,
                   market, workers, start_log>>

\* lines 149-153: time.sleep(2); detector = VolumeSpikeDetector(); _start_stream_once()
SupStart ==
    /\ sup_pc = "start"
    /\ MonitorsPolled
    /\ detector' = TRUE
    /\ _start_stream_once
    /\ sup_pc' = "auth"
    /\ UNCHANGED <<auxVars, healthVars, tickVars, signalled, ran_at_close, sup_ret, auth_due, window, market>>

\* lines 156-163: the periodic auth check
SupAuth ==
    /\ sup_pc = "auth"
    /\ IF auth_due /\ detector /\ ~SupervisorDetectorAuthenticated
       THEN StopBegin("expired")
       ELSE sup_pc' = "top" /\ UNCHANGED <<stop_event, signalled, sup_ret>>
    /\ auth_due' = FALSE
    /\ UNCHANGED <<auxVars, healthVars, tickVars, init_log, ran_at_close, _running_flag, detector, window, market, workers, start_log>>

\* the supervisor keeping its detector after the stop
SupExpiredKeepsDetector ==
    /\ sup_pc = "expired"
    /\ sup_pc' = "top"
    /\ UNCHANGED <<auxVars, healthVars, tickVars, init_log, signalled, ran_at_close, stop_event, _running_flag, detector,
                   sup_ret, auth_due, window, market, workers, start_log>>

\* line 162: detector = None; then line 166: time.sleep(30)
SupExpired ==
    /\ sup_pc = "expired"
    /\ detector' = FALSE
    /\ sup_pc' = "top"
    /\ UNCHANGED <<auxVars, healthVars, tickVars, init_log, signalled, ran_at_close, stop_event, _running_flag, sup_ret, auth_due, window,
                   market, workers, start_log>>

NextSup ==
    \/ SupTop
    \/ SupOutside
    \/ SupStart
    \/ SupAuth
    \/ SupExpired
    \/ StopWake
    \/ \E w \in WorkerIds : WorkerInit(w)
    \/ \E w \in WorkerIds : WorkerConnect(w)
    \/ \E w \in WorkerIds : WorkerFeedDown(w)
    \/ \E w \in WorkerIds : WorkerFeedUp(w)
    \/ \E w \in WorkerIds : WorkerPoll(w)
    \/ \E w \in WorkerIds : WorkerMessage(w)
    \/ \E w \in WorkerIds : WorkerClosed(w)
    \/ WindowChanges
    \/ MarketChanges
    \/ HourPasses

\* The program may be started at any time of day.
InitSup ==
    /\ clock = ClockStart
    /\ _market_end_message_sent = FALSE
    /\ stop_event = FALSE
    /\ end_messages = 0
    /\ ticks = <<>>
    /\ last_other = NoOther
    /\ elapsed = 0
    /\ _running_flag = FALSE
    /\ detector = FALSE
    /\ sup_pc = "entry"
    /\ sup_ret = "entry"
    /\ auth_due = FALSE
    /\ window \in BOOLEAN
    /\ market \in {"before", "open", "after"}
    /\ workers = <<>>
    /\ start_log = <<>>
    /\ init_log = <<>>
    /\ signalled = {}
    /\ ran_at_close = FALSE
    /\ HealthIdle
    /\ AuxIdle

SpecSup == InitSup /\ [][NextSup]_vars

\* Every sleep of supervisor_loop and of _stop_stream_once ends, every
\* started thread is scheduled: initialize() returns (its waits have
\* time-outs), the loop of start_monitoring polls every second, and
\* fyers_ws.close() returns or raises.  Nothing is assumed of the clocks, of
\* the socket or of wait_for_market_start.
FairSup ==
    /\ WF_vars(SupTop)
    /\ WF_vars(SupOutside)
    /\ WF_vars(SupStart)
    /\ WF_vars(SupAuth)
    /\ WF_vars(SupExpired)
    /\ WF_vars(StopWake)
    /\ WF_vars(\E w \in WorkerIds : WorkerInit(w))
    /\ WF_vars(\E w \in WorkerIds : WorkerPoll(w))
    /\ WF_vars(\E w \in WorkerIds : WorkerClosed(w))

SpecSupFair == SpecSup /\ FairSup

(***************************************************************************)
(* supervisor_loop with calls of one iteration raising: _inside_window_ist *)
(* (ZoneInfo), VolumeSpikeDetector() (its handlers read the environment),  *)
(* print, and Thread.start() in _start_stream_once.                        *)
(***************************************************************************)
\* an exception leaving supervisor_loop: its thread ends
supervisor_loop_uncaught(pc) == "crashed"

\* lines 132-133, 168-172: `while True: try: ... except Exception`; where an
\* exception raised at position pc of an iteration takes the supervisor
supervisor_loop_except(pc) == "except"

\* a call raises before the step at the current position has changed
\* anything: at "start" this is VolumeSpikeDetector() raising, leaving the
\* supervisor's old detector in place
SupRaises ==
    /\ sup_pc \in {"entry", "top", "outside", "start", "auth", "expired"}
    /\ sup_pc' = supervisor_loop_except(sup_pc)
    /\ UNCHANGED <<auxVars, healthVars, tickVars, init_log, signalled, ran_at_close, stop_event, _running_flag, detector,
                   sup_ret, auth_due, window, market, workers, start_log>>

\* lines 152-153, 72-74: the new detector is assigned, _stop_event is
\* cleared, Thread.start() raises: no thread, _running_flag not set
SupStartThreadFails ==
    /\ sup_pc = "start"
    /\ MonitorsPolled
    /\ ~_running_flag
    /\ detector' = TRUE
    /\ stop_event' = FALSE
    /\ sup_pc' = supervisor_loop_except(sup_pc)
    /\ UNCHANGED <<auxVars, healthVars, tickVars, init_log, signalled, ran_at_close, _running_flag, sup_ret, auth_due,
                   window, market, workers, start_log>>

\* lines 169-172: print, time.sleep(10), then the next iteration;
\* last_auth_check keeps its value
SupExcept ==
    /\ sup_pc = "except"
    /\ MonitorsPolled
    /\ sup_pc' = "top"
    /\ UNCHANGED <<auxVars, healthVars, tickVars, init_log, signalled, ran_at_close, stop_event, _running_flag, detector,
                   sup_ret, auth_due, window, market, workers, start_log>>

\* the supervisor and its workers while the market is open and the feed up
NextSupExc ==
    \/ SupTop
    \/ SupOutside
    \/ SupStart
    \/ SupAuth
    \/ SupExpired
    \/ StopWake
    \/ SupRaises
    \/ SupStartThreadFails
    \/ SupExcept
    \/ \E w \in WorkerIds : WorkerInit(w)
    \/ \E w \in WorkerIds : WorkerConnect(w)
    \/ \E w \in WorkerIds : WorkerPoll(w)
    \/ \E w \in WorkerIds : WorkerClosed(w)
    \/ WindowChanges
    \/ HourPasses

InitSupExc == InitSup /\ market = "open"

SpecSupExc == InitSupExc /\ [][NextSupExc]_vars

(***************************************************************************)
(* health.py: POST /restart-detector, the manual restart.  It terminates   *)
(* the process running fyers.py, with every thread in it, and starts a new *)
(* one with start_detector(); the new process runs supervisor_loop from    *)
(* its first line with fresh globals.  start_detector() may start nothing  *)
(* (fyers.py not found, Popen raising, a start already in progress): then  *)
(* no supervisor runs, sup_pc = "no_process".  sup_ret records that the    *)
(* process was restarted, and whether the supervisor that was terminated   *)
(* was in its 60 s sleep outside the window.                               *)
(***************************************************************************)
restart_detector ==
    /\ \E started \in BOOLEAN :
           sup_pc' = IF started THEN "entry" ELSE "no_process"
    /\ sup_ret' = IF sup_pc = "outside" THEN "restart_outside" ELSE "restart"
    /\ workers' = [w \in WorkerIds |->
                      IF workers[w] \in Done THEN workers[w] ELSE "killed"]
    /\ _running_flag' = FALSE
    /\ stop_event' = FALSE
    /\ detector' = FALSE
    /\ auth_due' = FALSE
    /\ signalled' = {}
    /\ ran_at_close' = FALSE
    /\ UNCHANGED <<auxVars, healthVars, tickVars, init_log, window, market, start_log>>

NextHealth == NextSup \/ restart_detector

SpecHealth == InitSup /\ [][NextHealth]_vars

(***************************************************************************)
(* The run controller functions called directly, in any order.             *)
(***************************************************************************)
CallStart ==
    /\ sup_pc = "caller"
    /\ Len(start_log) < MaxCalls
    /\ _start_stream_once
    /\ UNCHANGED <<auxVars, healthVars, tickVars, signalled, ran_at_close, detector, sup_pc, sup_ret, auth_due, window, market>>

CallStop ==
    /\ sup_pc = "caller"
    /\ StopBegin("caller")
    /\ UNCHANGED <<auxVars, healthVars, tickVars, init_log, ran_at_close, _running_flag, detector, auth_due, window, market,
                   workers, start_log>>

InitOps ==
    /\ clock = ClockStart
    /\ _market_end_message_sent = FALSE
    /\ stop_event = FALSE
    /\ end_messages = 0
    /\ ticks = <<>>
    /\ last_other = NoOther
    /\ elapsed = 0
    /\ _running_flag = FALSE
    /\ detector = FALSE
    /\ sup_pc = "caller"
    /\ sup_ret = "caller"
    /\ auth_due = FALSE
    /\ window = TRUE
    /\ market \in {"before", "open", "after"}
    /\ workers = <<>>
    /\ start_log = <<>>
    /\ init_log = <<>>
    /\ signalled = {}
    /\ ran_at_close = FALSE
    /\ HealthIdle
    /\ AuxIdle

NextOps ==
    \/ CallStart
    \/ CallStop
    \/ StopWake
    \/ \E w \in WorkerIds : WorkerInit(w)
    \/ \E w \in WorkerIds : WorkerConnect(w)
    \/ \E w \in WorkerIds : WorkerFeedDown(w)
    \/ \E w \in WorkerIds : WorkerFeedUp(w)
    \/ \E w \in WorkerIds : WorkerPoll(w)
    \/ \E w \in WorkerIds : WorkerMessage(w)
    \/ \E w \in WorkerIds : WorkerClosed(w)
    \/ MarketChanges

SpecOps == InitOps /\ [][NextOps]_vars

(***************************************************************************)
(* The scenario of the specification: one symbol at one price, with the    *)
(* volumes below observed in this order, the sheet and the Telegram API     *)
(* answering every request.                                                *)
(***************************************************************************)
Scenario == [symbol |-> "X", price |-> 100,
             volumes |-> <<1000, 1000, 5000000, 5000001>>]

TicksOf(s) == SelectSeq(ticks, LAMBDA t : t.symbol = s)

ScenarioTick ==
    /\ Len(TicksOf(Scenario.symbol)) < Len(Scenario.volumes)
    /\ on_message(SymbolFeed(Scenario.symbol,
            <<Scenario.price, Scenario.volumes[Len(TicksOf(Scenario.symbol)) + 1]>>),
            "ok", "ok")

NoiseTick ==
    \E s \in Symbols \ {Scenario.symbol}, pv \in TickValues :
        /\ Len(TicksOf(s)) < MaxNoise
        /\ on_message(SymbolFeed(s, pv), "ok", "ok")

NextScenario == ScenarioTick \/ NoiseTick \/ Elapse

SpecScenario == InitTick /\ [][NextScenario]_vars

(***************************************************************************)
(* health.py: the detector subprocess and the threads that start it.       *)
(*                                                                         *)
(* delayed_start and monitor_detector are threads; the handlers of         *)
(* POST /restart-detector and POST /stop-detector are coroutines of the    *)
(* server's event loop that never await, so one is served at a time, next  *)
(* to the two threads.  Time is read by monitor_detector only and is       *)
(* counted in the sleeps of that thread; the other threads take their      *)
(* steps at any moment in between.                                         *)
(***************************************************************************)
max_restarts == 5

MaxNow == 1560       \* the monitor starts no sleep that would end after this time
MaxRequests == 1     \* POST requests served in one run
MaxOrphans == 1      \* running processes without a reference

\* the detector subprocesses that are running
AliveProcesses == (IF detector_process = "running" THEN 1 ELSE 0) + orphans

\* lines 666-667: start_detector goes on only when no start is in progress
start_detector_enters(starting) == ~starting

\* lines 704-711 and the `finally`: Popen succeeds and its handle replaces the
\* one in detector_process (a process still running under the old handle
\* keeps running), or nothing is assigned (fyers.py not found, Popen raised)
Popen(ok) ==
    /\ ok => (detector_process = "running" => orphans < MaxOrphans)
    /\ detector_process' = IF ok THEN "running" ELSE detector_process
    /\ orphans' = IF ok /\ detector_process = "running" THEN orphans + 1 ELSE orphans
    /\ detector_starting' = FALSE

\* the process behind detector_process exits by itself
DetectorExits ==
    /\ detector_process = "running"
    /\ detector_process' = "exited"
    /\ UNCHANGED <<auxVars, fyersVars, orphans, detector_starting, monVars, reqVars, histVars, ds_pc>>

\* a process health.py no longer refers to exits by itself
OrphanExits ==
    /\ orphans > 0
    /\ orphans' = orphans - 1
    /\ UNCHANGED <<auxVars, fyersVars, detector_process, detector_starting, monVars, reqVars, histVars, ds_pc>>

\* delayed_start (813-815): time.sleep(2), then start_detector() up to Popen
DelayedStart ==
    /\ ds_pc = "sleep"
    /\ IF start_detector_enters(detector_starting)
       THEN detector_starting' = TRUE /\ ds_pc' = "starting"
       ELSE detector_starting' = detector_starting /\ ds_pc' = "done"
    /\ UNCHANGED <<auxVars, fyersVars, detector_process, orphans, monVars, reqVars, histVars>>

DelayedStarted ==
    /\ ds_pc = "starting"
    /\ \E ok \in BOOLEAN : Popen(ok)
    /\ ds_pc' = "done"
    /\ UNCHANGED <<auxVars, fyersVars, monVars, reqVars, histVars>>

\* monitor_detector, line 735: time.sleep(10); delayed_start has slept its
\* two seconds by then
MonBoot ==
    /\ mon_pc = "boot"
    /\ ds_pc # "sleep"
    /\ now' = now + 10
    /\ mon_pc' = "check"
    /\ UNCHANGED <<auxVars, fyersVars, procVars, restart_count, last_restart_time, current_time,
                   reqVars, histVars, ds_pc>>

\* `restart_count > max_restarts`
LimitExceeded(count) == count > max_restarts

\* line 743: restart_count >= max_restarts
LimitReached(count) == count >= max_restarts

\* lines 739-752: the head of an iteration.  With the detector dead the
\* monitor reads the time and goes on to a restart attempt, first
\* resetting the counter when the limit was reached 300 seconds or more
\* after the last restart, or announces the end of auto-restart.
MonCheck ==
    /\ mon_pc = "check"
    /\ IF detector_process \in {"None", "exited"}
       THEN /\ current_time' = now
            /\ IF LimitReached(restart_count)
               THEN IF now - last_restart_time < 300
                    THEN /\ mon_pc' = "pause"
                         /\ halted' = TRUE
                         /\ paused_at' = now
                         /\ resumed_at' = -1
                         /\ UNCHANGED <<restart_count, resumed_attempt, stopped>>
                    ELSE /\ restart_count' = 0
                         /\ mon_pc' = "attempt"
                         /\ UNCHANGED histVars
               ELSE /\ mon_pc' = "attempt"
                    /\ UNCHANGED <<restart_count, histVars>>
       ELSE /\ mon_pc' = "sleep"
            /\ UNCHANGED <<current_time, restart_count, histVars>>
    /\ UNCHANGED <<auxVars, fyersVars, procVars, now, last_restart_time, reqVars, ds_pc>>

\* the pause lasting 30 seconds
MonPauseShort ==
    /\ mon_pc = "pause"
    /\ now + 30 <= MaxNow
    /\ now' = now + 30
    /\ restart_count' = 0
    /\ mon_pc' = "check"
    /\ UNCHANGED <<auxVars, fyersVars, procVars, last_restart_time, current_time, reqVars, histVars, ds_pc>>

\* lines 747-749: time.sleep(300); restart_count = 0; continue
MonPause ==
    /\ mon_pc = "pause"
    /\ now + 300 <= MaxNow
    /\ now' = now + 300
    /\ restart_count' = 0
    /\ mon_pc' = "check"
    /\ UNCHANGED <<auxVars, fyersVars, procVars, last_restart_time, current_time, reqVars, histVars, ds_pc>>

\* lines 757-759: the attempt is announced and counted
MonAttempt ==
    /\ mon_pc = "attempt"
    /\ restart_count' = restart_count + 1
    /\ last_restart_time' = current_time
    /\ IF paused_at >= 0 /\ resumed_at < 0
       THEN resumed_at' = now /\ resumed_attempt' = restart_count + 1
       ELSE UNCHANGED <<resumed_at, resumed_attempt>>
    /\ mon_pc' = "restart_sleep"
    /\ UNCHANGED <<auxVars, fyersVars, procVars, now, current_time, reqVars, halted, paused_at, stopped,
                   ds_pc>>

\* lines 762-763: time.sleep(10), then start_detector() up to Popen
MonStart ==
    /\ mon_pc = "restart_sleep"
    /\ now + 10 <= MaxNow
    /\ now' = now + 10
    /\ IF start_detector_enters(detector_starting)
       THEN detector_starting' = TRUE /\ mon_pc' = "starting"
       ELSE detector_starting' = detector_starting /\ mon_pc' = "sleep"
    /\ UNCHANGED <<auxVars, fyersVars, detector_process, orphans, restart_count, last_restart_time,
                   current_time, reqVars, histVars, ds_pc>>

MonStarted ==
    /\ mon_pc = "starting"
    /\ \E ok \in BOOLEAN : Popen(ok)
    /\ mon_pc' = "sleep"
    /\ UNCHANGED <<auxVars, fyersVars, now, restart_count, last_restart_time, current_time,
                   reqVars, histVars, ds_pc>>

\* line 765: time.sleep(30)
MonSleep ==
    /\ mon_pc = "sleep"
    /\ now + 30 <= MaxNow
    /\ now' = now + 30
    /\ mon_pc' = "check"
    /\ UNCHANGED <<auxVars, fyersVars, procVars, restart_count, last_restart_time, current_time,
                   reqVars, histVars, ds_pc>>

\* POST /restart-detector, lines 236-239: a running process is terminated
ReqRestart ==
    /\ req_pc = "idle"
    /\ requests < MaxRequests
    /\ requests' = requests + 1
    /\ halted' = FALSE
    /\ stopped' = FALSE
    /\ IF detector_process = "running"
       THEN detector_process' = "exited" /\ req_pc' = "restart_kill"
       ELSE detector_process' = detector_process /\ req_pc' = "restart_start"
    /\ UNCHANGED <<auxVars, fyersVars, orphans, detector_starting, monVars, paused_at, resumed_at,
                   resumed_attempt, ds_pc>>

\* lines 240-243, after time.sleep(2): what detector_process refers to now
\* is killed if it is running; detector_process = None
ReqRestartKill ==
    /\ req_pc = "restart_kill"
    /\ detector_process' = "None"
    /\ req_pc' = "restart_start"
    /\ UNCHANGED <<auxVars, fyersVars, orphans, detector_starting, monVars, requests, histVars, ds_pc>>

\* line 247: start_detector() up to Popen
ReqRestartStart ==
    /\ req_pc = "restart_start"
    /\ IF start_detector_enters(detector_starting)
       THEN detector_starting' = TRUE /\ req_pc' = "restart_starting"
       ELSE detector_starting' = detector_starting /\ req_pc' = "restart_wait"
    /\ UNCHANGED <<auxVars, fyersVars, detector_process, orphans, monVars, requests, histVars, ds_pc>>

ReqRestartStarted ==
    /\ req_pc = "restart_starting"
    /\ \E ok \in BOOLEAN : Popen(ok)
    /\ req_pc' = "restart_wait"
    /\ UNCHANGED <<auxVars, fyersVars, monVars, requests, histVars, ds_pc>>

\* lines 250-262: time.sleep(2) and the response
ReqRestartRespond ==
    /\ req_pc = "restart_wait"
    /\ req_pc' = "idle"
    /\ UNCHANGED <<auxVars, fyersVars, procVars, monVars, requests, histVars, ds_pc>>

\* POST /stop-detector, lines 277-280
ReqStop ==
    /\ req_pc = "idle"
    /\ requests < MaxRequests
    /\ requests' = requests + 1
    /\ IF detector_process = "running"
       THEN detector_process' = "exited" /\ req_pc' = "stop_kill"
       ELSE detector_process' = detector_process /\ req_pc' = "idle"
    /\ UNCHANGED <<auxVars, fyersVars, orphans, detector_starting, monVars, histVars, ds_pc>>

\* lines 281-288, after time.sleep(2): the process is killed if it is still
\* running, detector_process = None, "Detector stopped successfully"
ReqStopKill ==
    /\ req_pc = "stop_kill"
    /\ detector_process' = "None"
    /\ stopped' = TRUE
    /\ req_pc' = "idle"
    /\ UNCHANGED <<auxVars, fyersVars, orphans, detector_starting, monVars, requests, halted, paused_at,
                   resumed_at, resumed_attempt, ds_pc>>

NextMonitor ==
    \/ DelayedStart
    \/ DelayedStarted
    \/ MonBoot
    \/ MonCheck
    \/ MonPause
    \/ MonAttempt
    \/ MonStart
    \/ MonStarted
    \/ MonSleep
    \/ DetectorExits
    \/ OrphanExits
    \/ ReqRestart
    \/ ReqRestartKill
    \/ ReqRestartStart
    \/ ReqRestartStarted
    \/ ReqRestartRespond
    \/ ReqStop
    \/ ReqStopKill

SpecMonitor == InitTick /\ [][NextMonitor]_vars

(***************************************************************************)
(* Utility functions, each applied to arguments drawn from a set; `call`   *)
(* holds the arguments and the result of the latest call.                  *)
(***************************************************************************)
Minutes == 0 .. (24 * 60 - 1)

\* _inside_window_ist (fyers.py:117-121) at minute `hm` of the day:
\* MARKET_START_TIME <= hhmm < MARKET_END_TIME
inside_window_at(hm) == MARKET_START_TIME <= hm /\ hm < MARKET_END_TIME

\* both checks reading the same clock
CallWindow ==
    /\ \E hm \in Minutes :
           call' = [fn |-> "window", minute |-> hm,
                    inside_window |-> inside_window_at(hm),
                    market_time |-> is_market_time(hm * 60)]
    /\ UNCHANGED <<fyersVars, healthVars, auth, sched>>

\* FYERS_ACCESS_TOKEN as loaded: nothing, blanks, or a token
Tokens == {"", " ", "   ", "eyJ0eXAi"}

\* str.strip() of these
strip(token) == IF token \in {"", " ", "   "} THEN "" ELSE token

\* current_time - token_time, in seconds
Ages == {0, 1, 14400, 28799, 28800, 28801, 86400}

\* the comparison read as `current_time - token_time <= 28800`
validate_fyers_token_inclusive(token, token_time, time_now) ==
    /\ token # ""
    /\ strip(token) # ""
    /\ time_now - token_time <= 28800

\* validate_fyers_token_from_json (fyers.py:246-265), the first element of
\* the pair it returns
validate_fyers_token_from_json(token, token_time, time_now) ==
    /\ token # ""
    /\ strip(token) # ""
    /\ time_now - token_time < 28800

CallValidate ==
    /\ \E token \in Tokens, age \in Ages, token_time \in {0, 1700000000} :
           call' = [fn |-> "validate", token |-> token, age |-> age,
                    valid |-> validate_fyers_token_from_json(token, token_time,
                                                             token_time + age)]
    /\ UNCHANGED <<fyersVars, healthVars, auth, sched>>

Weekdays == {"Monday", "Tuesday", "Wednesday", "Thursday", "Friday", "Saturday", "Sunday"}

\* what format_single_summary_message returns: the summary, the text for
\* "no data", or the text of an error it caught (fyers.py:1560-1618)
Contents == {"summary", "no_data", "error"}

\* the 3-day summary added on every day but Monday and Tuesday
format_summary_message_midweek(day, raises, content) ==
    IF raises THEN << [type |-> "Error", content |-> "error"] >>
    ELSE << [type |-> "Daily", content |-> content] >>
         \o (IF day \notin {"Monday", "Tuesday"}
             THEN << [type |-> "3-Day", content |-> content] >> ELSE << >>)
         \o (IF day = "Friday"
             THEN << [type |-> "Weekly", content |-> content] >> ELSE << >>)

\* DailySummaryGenerator.format_summary_message (fyers.py:1620-1654) on the
\* weekday `day`; `raises`: an exception reaches its own `except`
format_summary_message(day, raises, content) ==
    IF raises THEN << [type |-> "Error", content |-> "error"] >>
    ELSE << [type |-> "Daily", content |-> content] >>
         \o (IF day \in {"Wednesday", "Friday"}
             THEN << [type |-> "3-Day", content |-> content] >> ELSE << >>)
         \o (IF day = "Friday"
             THEN << [type |-> "Weekly", content |-> content] >> ELSE << >>)

CallFormatSummary ==
    /\ \E day \in Weekdays, raises \in BOOLEAN, content \in Contents :
           call' = [fn |-> "format_summary_message", day |-> day, raises |-> raises,
                    messages |-> format_summary_message(day, raises, content)]
    /\ UNCHANGED <<fyersVars, healthVars, auth, sched>>

NextFunctions == CallWindow \/ CallValidate \/ CallFormatSummary

SpecFunctions == InitTick /\ [][NextFunctions]_vars

(***************************************************************************)
(* check_market_end called at any time of day, over several days.          *)
(***************************************************************************)
MaxEndMessages == 2  \* "Market Session Ended" messages sent in one run

\* times of day, in seconds: before the session, its first and last
\* minutes, and after it
DayTimes ==
    { 8 * 3600, MARKET_START_TIME * 60, 12 * 3600, MARKET_END_TIME * 60 + 59,
      (MARKET_END_TIME + 1) * 60, 20 * 3600 }

\* one call of check_market_end() (fyers.py:764-792)
CallCheckMarketEnd ==
    /\ check_market_end_sends(clock, _market_end_message_sent) => end_messages < MaxEndMessages
    /\ _market_end_message_sent' = check_market_end_flag(clock, _market_end_message_sent)
    /\ end_messages' = IF check_market_end_sends(clock, _market_end_message_sent)
                       THEN end_messages + 1 ELSE end_messages
    /\ call' = [fn |-> "check_market_end", at |-> clock,
                returns |-> check_market_end(clock),
                sends |-> check_market_end_sends(clock, _market_end_message_sent)]
    /\ UNCHANGED <<clock, ticks, last_other, elapsed, stop_event, supVars, healthVars, auth, sched>>

\* time passes, to a later time of the day or to a time of a later day
ClockTo ==
    /\ \E t \in DayTimes : clock' = t
    /\ UNCHANGED <<_market_end_message_sent, end_messages, ticks, last_other, elapsed,
                   stop_event, supVars, healthVars, auxVars>>

NextMarketEnd == CallCheckMarketEnd \/ ClockTo

SpecMarketEnd == InitTick /\ [][NextMarketEnd]_vars

(***************************************************************************)
(* The Fyers access token: the module globals FYERS_ACCESS_TOKEN and       *)
(* FYERS_TOKEN_TIMESTAMP, the file fyers_access_token.json, and            *)
(* FyersAuthenticator.authenticate, called once by every session start.    *)
(***************************************************************************)
MaxAuthCalls == 3    \* calls of authenticate() in one run
MaxAuthSteps == 5    \* two-hour steps of time.time() in one run

\* time.time() when the process starts for the first time
AuthStart == 100000

\* fyers_access_token.json at that time: no token, a token of more than
\* eight hours ago, a token of the last hour
StoredTokens ==
    { [token |-> "", timestamp |-> 0],
      [token |-> "eyJ0eXAi", timestamp |-> AuthStart - 30000],
      [token |-> "eyJ0eXAi", timestamp |-> AuthStart - 1000] }

\* what the fresh authentication meets: the token is issued, no auth code
\* arrives through Telegram in time, or generate_token() yields no token
AuthOutcomes == {"token", "no_code", "no_token"}

\* FyersAuthenticator.authenticate (fyers.py:1765-1833)
authenticate ==
    /\ auth.loaded
    /\ auth.calls < MaxAuthCalls
    /\ \E outcome \in AuthOutcomes, save_ok \in BOOLEAN :
           auth' =
             IF validate_fyers_token_from_json(auth.FYERS_ACCESS_TOKEN,
                                               auth.FYERS_TOKEN_TIMESTAMP, auth.time)
             THEN [auth EXCEPT !.calls = @ + 1,
                               !.last = [kind |-> "reused", requested |-> FALSE,
                                         saved |-> FALSE]]
             ELSE IF outcome = "token"
             THEN [auth EXCEPT !.calls = @ + 1,
                               !.file_token = IF save_ok THEN "eyJ0eXAi" ELSE @,
                               !.file_timestamp = IF save_ok THEN auth.time ELSE @,
                               !.last = [kind |-> "fresh", requested |-> TRUE,
                                         saved |-> save_ok]]
             ELSE [auth EXCEPT !.calls = @ + 1,
                               !.last = [kind |-> "failed", requested |-> TRUE,
                                         saved |-> FALSE]]
    /\ UNCHANGED <<fyersVars, healthVars, call, sched>>

\* two hours pass
AuthTimePasses ==
    /\ auth.loaded
    /\ auth.time < AuthStart + MaxAuthSteps * 7200
    /\ auth' = [auth EXCEPT !.time = @ + 7200]
    /\ UNCHANGED <<fyersVars, healthVars, call, sched>>

\* the process starts for the first time: lines 223-231 load the globals
\* from the file it finds
ProcessStartsFirst ==
    /\ ~auth.loaded
    /\ \E stored \in StoredTokens :
           auth' = AuthIdle(stored.token, stored.timestamp, AuthStart)
    /\ UNCHANGED <<fyersVars, healthVars, call, sched>>

\* the process is started again: lines 223-231 load the globals from the file
ProcessStarts ==
    /\ auth.loaded
    /\ auth' = [AuthIdle(auth.file_token, auth.file_timestamp, auth.time)
                   EXCEPT !.calls = auth.calls]
    /\ UNCHANGED <<fyersVars, healthVars, call, sched>>

NextAuth == ProcessStartsFirst \/ authenticate \/ AuthTimePasses \/ ProcessStarts

SpecAuth == InitTick /\ [][NextAuth]_vars

(***************************************************************************)
(* summary_scheduler: the thread that sends the end-of-day summaries.      *)
(* Time is the IST wall clock in minutes of the day (the loop formats it   *)
(* as "%H:%M"); one action is one iteration of the loop, its sleep         *)
(* included.                                                               *)
(***************************************************************************)
MaxDay == 1         \* days after the day the thread starts
MaxFailures == 1    \* scheduled sends that fail in one run

SUMMARY_SEND_TIME == 16 * 60 + 30
SUMMARY_SEND_INTERVAL == 7200

\* minutes of the day at which the thread may start
StartMinutes == {0, 17 * 60}

\* the thread starts: the startup summary (lines 1669-1681) is attempted
\* outside the schedule; sent or not, it only prints, and last_sent_date and
\* last_sent_time are None when the loop is entered
summary_scheduler_start ==
    /\ sched.pc = "start"
    /\ \E minute \in StartMinutes : sched' = SchedIdle(minute)
    /\ UNCHANGED <<fyersVars, healthVars, call, auth>>

\* lines 1690-1694 for the stop flag: never reset
stop_never_reset(stop, new_day) == stop

\* lines 1690-1694 for the stop flag
stop_after_reset(stop, new_day) == IF new_day THEN FALSE ELSE stop

\* lines 1705-1719: should a summary be sent now?
should_send(minute, stop, last_time) ==
    /\ minute >= SUMMARY_SEND_TIME
    /\ ~stop
    /\ \/ last_time = -1
       \/ (minute - last_time) * 60 >= SUMMARY_SEND_INTERVAL

\* one iteration of the while loop (lines 1684-1731)
summary_scheduler_iteration ==
    /\ sched.pc = "loop"
    /\ sched.date < MaxDay \/ sched.minute < 24 * 60 - 1
    /\ \E done \in BOOLEAN, ok \in BOOLEAN :
         LET new_day   == sched.last_sent_date # sched.date
             last_time == IF new_day THEN -1 ELSE sched.last_sent_time
             stop      == done \/ stop_after_reset(sched.stop_sending_today, new_day)
             sends     == should_send(sched.minute, stop, last_time)
             wraps     == sched.minute = 24 * 60 - 1
         IN  /\ (sends /\ ~ok) => sched.failures < MaxFailures
             /\ sched' =
                  [sched EXCEPT
                     !.last_sent_date = sched.date,
                     !.stop_sending_today = stop,
                     !.done_date = IF done THEN sched.date ELSE @,
                     !.last_sent_time = IF sends /\ ok THEN sched.minute ELSE last_time,
                     !.failures = IF sends /\ ~ok THEN @ + 1 ELSE @,
                     !.attempt = IF sends
                                 THEN [date |-> sched.date, time |-> sched.minute,
                                       ok |-> ok]
                                 ELSE @,
                     !.prev_attempt = IF sends THEN sched.attempt ELSE @,
                     !.minute = IF wraps THEN 0 ELSE @ + 1,
                     !.date = IF wraps THEN @ + 1 ELSE @]
    /\ UNCHANGED <<fyersVars, healthVars, call, auth>>

NextSummary == summary_scheduler_start \/ summary_scheduler_iteration

SpecSummary == InitTick /\ [][NextSummary]_vars

(***************************************************************************)
(* Properties of the tick handler.                                         *)
(***************************************************************************)
TickIds == 1..Len(ticks)

NoEvent(i) == ticks[i].persisted = <<>> /\ ticks[i].notified = <<>>

OneEvent(i) == Len(ticks[i].persisted) = 1 /\ Len(ticks[i].notified) = 1

SeqRange(q) == { q[k] : k \in 1..Len(q) }

EventsOf(i) == SeqRange(ticks[i].persisted) \cup SeqRange(ticks[i].notified)

\* The classification claims (C3, C4, C6, C8, C10) are stated for the ticks
\* the tick processor accepts, those with a positive price and a positive
\* volume; C9 is the claim about the others.
Accepted(i) == ticks[i].price > 0 /\ ticks[i].volume > 0

\* the accepted ticks of the same symbol observed before tick i
Earlier(i) ==
    { j \in TickIds : j < i /\ Accepted(j) /\ ticks[j].symbol = ticks[i].symbol }

FirstOfSymbol(i) == Earlier(i) = {}

\* the volume observed by the latest earlier tick of the same symbol; the
\* tick's own volume when there is none (a delta of zero)
PreviousVolume(i) ==
    IF FirstOfSymbol(i) THEN ticks[i].volume
    ELSE ticks[CHOOSE j \in Earlier(i) : \A k \in Earlier(i) : k <= j].volume

Notional(i) == ticks[i].price * ticks[i].volume

Qualifies(i) ==
    /\ Notional(i) >= INDIVIDUAL_TRADE_THRESHOLD
    /\ ticks[i].volume > MIN_VOLUME_SPIKE

FirstQualifying(i) ==
    /\ Qualifies(i)
    /\ \A j \in Earlier(i) : ~Qualifies(j)

\* C3: the first qualifying tick of a symbol (handled in market hours)
\* produces exactly one persist and one notify call, and no later accepted
\* tick of the same symbol produces an event less than 60 seconds after it.
C3_CoolDown ==
    \A i \in TickIds :
        (FirstQualifying(i) /\ ticks[i].open) =>
            /\ OneEvent(i)
            /\ \A j \in TickIds :
                  (j > i /\ Accepted(j)
                         /\ ticks[j].symbol = ticks[i].symbol
                         /\ ticks[j].at - ticks[i].at < 60) => NoEvent(j)

\* C4: an accepted tick whose volume quantity is at most MIN_VOLUME_SPIKE
\* produces no event, whatever its price.
C4_NoEventAtOrBelowMinVolume ==
    \A i \in TickIds :
        (Accepted(i) /\ ticks[i].volume <= MIN_VOLUME_SPIKE) => NoEvent(i)

\* C5: every event handed to add_to_sheet or send_telegram_alert carries the
\* tick's price and volume, its value is price times volume (in crores), and
\* that value is at least INDIVIDUAL_TRADE_THRESHOLD; a tick below the
\* threshold reaches neither.
C5_EventsMeetThreshold ==
    \A i \in TickIds :
        /\ \A e \in EventsOf(i) :
              /\ e.price = ticks[i].price
              /\ e.volume = ticks[i].volume
              /\ e.value_crores.num = e.price * e.volume
              /\ e.value_crores.den = CRORE
              /\ e.value_crores.num >= INDIVIDUAL_TRADE_THRESHOLD
        /\ Notional(i) < INDIVIDUAL_TRADE_THRESHOLD => NoEvent(i)

C5_Witness ==
    \E i \in TickIds : OneEvent(i) /\ Notional(i) = INDIVIDUAL_TRADE_THRESHOLD

\* C6: the first tick received for a symbol produces no event, whatever its
\* (positive) price and volume.
C6_FirstTickNeverEmits ==
    \A i \in TickIds : (Accepted(i) /\ FirstOfSymbol(i)) => NoEvent(i)

\* the severity tiers of the specification: the percentage is
\* delta / previous * 100, zero when previous is zero; the cutoffs are strict
PercentAbove(delta, previous, cut) ==
    \/ previous > 0 /\ delta * 100 > cut * previous
    \/ previous < 0 /\ delta * 100 < cut * previous

Severity(delta, previous) ==
    IF PercentAbove(delta, previous, 50) THEN "Large Spike"
    ELSE IF PercentAbove(delta, previous, 20) THEN "Medium Spike"
    ELSE "Volume Increase"

\* C7: in the scenario, of the ticks of the scenario's symbol handled in
\* market hours the third produces exactly one event, labelled "Large Spike",
\* and the first, second and fourth produce none.
C7_Scenario ==
    \A i \in TickIds :
        (ticks[i].symbol = Scenario.symbol /\ ticks[i].open) =>
            IF Cardinality(Earlier(i)) + 1 = 3
            THEN OneEvent(i) /\ \A e \in EventsOf(i) : e.type = "Large Spike"
            ELSE NoEvent(i)

\* C8: every event of an accepted tick carries the severity label of the
\* tick: "Large Spike" above 50 percent, "Medium Spike" above 20 percent,
\* else "Volume Increase".
C8_SeverityLabel ==
    \A i \in TickIds :
        Accepted(i) =>
            \A e \in EventsOf(i) :
                e.type = Severity(ticks[i].volume - PreviousVolume(i), PreviousVolume(i))

\* C9: a tick with a non-positive price or a non-positive volume produces no
\* event.
C9_NonPositiveRejected ==
    \A i \in TickIds :
        (ticks[i].price <= 0 \/ ticks[i].volume <= 0) => NoEvent(i)

\* C10: an accepted tick whose volume is lower than the volume last observed
\* for the same symbol produces no event.
C10_NegativeDeltaNeverEmits ==
    \A i \in TickIds :
        (Accepted(i) /\ ~FirstOfSymbol(i) /\ ticks[i].volume < PreviousVolume(i))
            => NoEvent(i)

\* the ticks that reach the two calls of lines 2036-2037
Qualifying(i) ==
    ticks[i].open /\ MeetsThreshold(TradeValue(ticks[i].volume, ticks[i].price))

\* C11: for every qualifying tick add_to_sheet and send_telegram_alert are
\* each called exactly once and each returns; what send_telegram_alert
\* returns depends on the Telegram API alone, whatever add_to_sheet did
\* (returned False or met an exception); and ticks that follow a failure are
\* handled the same way.
C11_PersistAndNotifyIndependent ==
    \A i \in TickIds :
        Qualifying(i) =>
            /\ Len(ticks[i].persisted) = 1 /\ Len(ticks[i].persist_results) = 1
            /\ Len(ticks[i].notified) = 1 /\ Len(ticks[i].notify_results) = 1
            /\ ticks[i].persist_results[1] = (ticks[i].sheet = "ok")
            /\ ticks[i].notify_results[1] = (ticks[i].telegram = "ok")

\* append_row raised on one tick while the alert went out, and the next tick
\* was persisted and notified
C11_Witness ==
    \E i, j \in TickIds :
        /\ i < j
        /\ Qualifying(i) /\ ticks[i].sheet = "raises"
        /\ ticks[i].notify_results = <<TRUE>>
        /\ Qualifying(j)
        /\ ticks[j].persist_results = <<TRUE>> /\ ticks[j].notify_results = <<TRUE>>

\* C12: with the default configuration (INDIVIDUAL_TRADE_THRESHOLD =
\* 3,000,000) a tick whose notional value price * volume is below 3,000,000
\* rupees produces no event, and a tick handled in market hours whose value is
\* 3,000,000 or more produces one, also when it is below 30,000,000.
C12_NoEventBelowThreeMillion ==
    \A i \in TickIds :
        /\ Notional(i) < INDIVIDUAL_TRADE_THRESHOLD => NoEvent(i)
        /\ (ticks[i].open /\ Notional(i) >= INDIVIDUAL_TRADE_THRESHOLD) => OneEvent(i)

\* a tick worth less than 3,000,000 without an event and a tick worth between
\* 3,000,000 and 30,000,000 with one
C12_Witness ==
    \E i, j \in TickIds :
        /\ Notional(i) > 0 /\ Notional(i) < INDIVIDUAL_TRADE_THRESHOLD /\ ticks[i].open
        /\ NoEvent(i)
        /\ Notional(j) >= INDIVIDUAL_TRADE_THRESHOLD /\ Notional(j) < 30000000
        /\ OneEvent(j)

\* C12 as stated: no event is produced for a tick whose notional value is
\* below 30,000,000 rupees.
C12_NoEventBelowThirtyMillion ==
    \A i \in TickIds : Notional(i) < 30000000 => NoEvent(i)

(***************************************************************************)
(* Properties of the run controller and the supervisor.                    *)
(***************************************************************************)
\* C1: at most one stream worker thread is alive at any moment.
C1_AtMostOneWorker == Cardinality(Alive) <= 1

\* C2: a call of _start_stream_once made while _running_flag is true creates
\* no worker thread, leaves _running_flag and _stop_event as they were and
\* returns False.
C2_StartWhileRunningIsNoOp ==
    \A k \in 1..Len(start_log) :
        start_log[k].flag_before =>
            /\ start_log[k].threads_after = start_log[k].threads_before
            /\ start_log[k].flag_after = start_log[k].flag_before
            /\ start_log[k].event_after = start_log[k].event_before
            /\ start_log[k].returns = FALSE

\* a call made while running, with the stop event set and a worker alive
C2_Witness ==
    \E k \in 1..Len(start_log) :
        /\ start_log[k].flag_before
        /\ start_log[k].event_before
        /\ start_log[k].threads_before > 0

\* C13: when the socket has reported an error or its closure to a session in
\* its monitoring loop, the session is being stopped: the stop event is set
\* or the stream is no longer marked running.
C13_FeedClosureStopsSession ==
    \A w \in WorkerIds :
        workers[w] = "monitor_down" => (stop_event \/ ~_running_flag)

\* C14: once the worker of the latest start has returned because start-up
\* failed, the supervisor begins its next cycle with _running_flag false.
C14_FailedStartClearsRunningFlag ==
    (sup_pc = "top" /\ workers # <<>> /\ workers[Len(workers)] = "failed")
        => ~_running_flag

\* a step of supervisor_loop
SupStep == sup_pc' # sup_pc

\* a step that leaves every existing worker thread as it is
WorkersUntouched == \A w \in WorkerIds : workers'[w] = workers[w]

\* C15: when the hourly check finds the authentication expired while a
\* session is running, the supervisor signals stop and clears _running_flag,
\* drops its detector, and in its next cycle inside the window starts a new
\* worker thread (a new detector, a new connection) with the stop event
\* cleared; no step of the supervisor changes a running worker in place.
C15_ExpiredAuthForcesFreshStart ==
    [][ /\ (sup_pc = "auth" /\ auth_due /\ detector /\ ~SupervisorDetectorAuthenticated
                /\ _running_flag /\ SupStep)
            => (stop_event' /\ sup_pc' = "stop_sleep" /\ sup_ret' = "expired"
                   /\ WorkersUntouched)
        /\ (sup_pc = "stop_sleep" /\ sup_ret = "expired" /\ SupStep)
            => (sup_pc' = "expired" /\ ~_running_flag' /\ WorkersUntouched)
        /\ (sup_pc = "expired" /\ SupStep)
            => (sup_pc' = "top" /\ ~detector' /\ ~_running_flag /\ WorkersUntouched)
        /\ (sup_pc = "top" /\ ~detector /\ _inside_window_ist /\ SupStep)
            => (sup_pc' = "start" /\ WorkersUntouched)
        /\ (sup_pc = "start" /\ SupStep)
            => /\ Len(workers') = Len(workers) + 1
               /\ workers'[Len(workers')] = "init"
               /\ WorkersUntouched
               /\ detector' /\ _running_flag' /\ ~stop_event'
      ]_vars

\* a second session started after the stop of the hourly check
C15_Witness ==
    /\ sup_pc = "auth" /\ sup_ret = "expired"
    /\ Len(workers) >= 2 /\ workers[Len(workers)] = "init"
    /\ _running_flag /\ ~stop_event

\* C16: an iteration of supervisor_loop that finds the time outside the
\* operating window stops the session it holds (sets the stop event, clears
\* _running_flag), drops its detector and goes back to the top of the loop
\* after its 60 s sleep, without calling _start_stream_once and without
\* starting a worker thread.
C16_NoStartOutsideWindow ==
    [][ /\ (sup_pc \in {"entry", "top"} /\ SCHEDULING_ENABLED /\ ~window /\ SupStep)
            => /\ IF detector /\ _running_flag
                  THEN stop_event' /\ sup_pc' = "stop_sleep" /\ sup_ret' = "outside"
                  ELSE sup_pc' = "outside"
               /\ workers' = workers /\ start_log' = start_log
        /\ (sup_pc = "stop_sleep" /\ sup_ret = "outside" /\ SupStep)
            => /\ sup_pc' = "outside" /\ ~_running_flag'
               /\ workers' = workers /\ start_log' = start_log
        /\ (sup_pc = "outside")
            => /\ ~_running_flag
               /\ SupStep => (sup_pc' = "top" /\ ~detector' /\ ~_running_flag')
               /\ Len(workers') = Len(workers) /\ start_log' = start_log
      ]_vars

\* outside the window, a session has been stopped and none was started
C16_Witness ==
    /\ sup_pc = "outside" /\ sup_ret = "outside" /\ ~window
    /\ workers # <<>> /\ stop_event /\ ~_running_flag /\ detector

\* C17: a session marked running while the window is closed is eventually
\* stopped (the stop event set and _running_flag cleared) while the window is
\* still closed, and from the moment the window closes on a running session
\* until it opens again no worker thread is started and _start_stream_once
\* is not called.
C17_WindowCloseStopsSession ==
    /\ (~window /\ _running_flag) ~> (~window /\ ~_running_flag /\ stop_event)
    /\ [][ran_at_close => (Len(workers') = Len(workers) /\ start_log' = start_log)]_vars

\* the window closed on a running session: it has been stopped, its worker
\* has exited and the supervisor waits for the window
C17_Witness ==
    /\ ran_at_close /\ ~window
    /\ ~_running_flag /\ stop_event /\ ~detector
    /\ sup_pc = "top"
    /\ workers # <<>> /\ Alive = {}

\* the positions of supervisor_loop: it has no exit
SupPositions == {"entry", "top", "outside", "start", "auth", "expired", "stop_sleep"}

\* C19: every call of _stop_stream_once that finds the stream running
\* returns, to the place it was called from and with _running_flag false,
\* whatever the worker threads are doing; and the supervisor loop never
\* ends, also after fyers_ws.close() has raised in a worker.
C19_StopAlwaysCompletes ==
    /\ (sup_pc = "stop_sleep") ~> (sup_pc # "stop_sleep" /\ ~_running_flag)
    /\ [][(sup_pc = "stop_sleep" /\ SupStep)
              => (sup_pc' = sup_ret /\ ~_running_flag')]_vars
    /\ [](sup_pc \in SupPositions)

\* a stop has returned although a worker it signalled is still alive, and the
\* supervisor has gone on after fyers_ws.close() raised in a worker
C19_Witness ==
    /\ sup_pc \in {"outside", "expired"}
    /\ ~_running_flag
    /\ \E w \in signalled : workers[w] \in {"init", "wait_market", "closing"}
    /\ \E w \in WorkerIds : workers[w] = "close_error"

\* C18: after a manual restart received while the supervisor was waiting
\* outside the operating window, the supervisor goes on to start a session
\* although the window is still closed.
C18_OverrideBypassesWindow ==
    [][(sup_pc = "entry" /\ sup_ret = "restart_outside" /\ ~window
            /\ SupStep /\ sup_pc' # "no_process")
          => sup_pc' = "start"]_vars

\* C20: a worker thread that was alive when the supervisor set the stop event
\* finds the event set until it has exited.
C20_SignalStaysUntilObserved ==
    \A w \in signalled : workers[w] \notin Done => stop_event

\* C21: a worker thread is created only by a call of _start_stream_once, one
\* call creates at most one; a worker calls detector.initialize() at most
\* once, never goes back to it, and once it has returned on a failure it
\* does nothing more.
C21_SingleAttemptPerStart ==
    [][ /\ Len(workers') <= Len(workers) + 1
        /\ Len(workers') > Len(workers) => Len(start_log') = Len(start_log) + 1
        /\ \A w \in WorkerIds :
              /\ Len(init_log'[w]) <= 1
              /\ workers[w] # "init" => workers'[w] # "init"
              /\ workers[w] = "failed" => workers'[w] \in {"failed", "killed"}
      ]_vars

\* initialize() failed in the only worker, which has returned; the
\* supervisor is in a later cycle and no other worker was started
C21_Witness ==
    /\ Len(workers) = 1 /\ workers[1] = "failed"
    /\ init_log[1] \in {<<"no_token">>, <<"no_sheets">>}
    /\ sup_pc = "top" /\ auth_due

\* the phases from wait_for_market_start() on: the worker is in, or has been
\* through, start_monitoring()
Monitoring == {"wait_market", "monitor", "monitor_down", "closing", "exited", "close_error"}

\* C24: a worker is in start_monitoring() (waiting for the market, connected
\* or closing) only when its initialize() obtained a token and set up the
\* sheet; a worker whose initialize() failed at either step has returned
\* without opening a connection.
C24_ConnectOnlyAfterInitialize ==
    \A w \in WorkerIds :
        /\ workers[w] \in Monitoring => init_log[w] = <<"ok">>
        /\ (init_log[w] # <<>> /\ init_log[w][1] # "ok") => workers[w] \in {"failed", "killed"}

\* one worker returned because the sheet set-up failed, another is connected
C24_Witness ==
    \E v, w \in WorkerIds :
        /\ init_log[v] = <<"no_sheets">> /\ workers[v] = "failed"
        /\ init_log[w] = <<"ok">> /\ workers[w] = "monitor"

\* C27: the periodic auth check leaves a running session alone when the
\* worker of that session authenticated successfully (its initialize()
\* returned True; a token obtained is valid for the whole trading day): the
\* check sets no stop event and goes on to the next iteration.
C27_AuthCheckSparesValidSession ==
    [][ ( /\ sup_pc = "auth" /\ SupStep
          /\ _running_flag
          /\ \E w \in Alive : init_log[w] = <<"ok">> )
        => (sup_pc' = "top" /\ stop_event' = stop_event) ]_vars

\* C25: with scheduling enabled, a tick handled while is_market_time()
\* reports the market closed causes no persist and no notify call, whatever
\* its notional value, and the handler sets the stop event.
C25_ClosedMarketTickStopsSession ==
    SCHEDULING_ENABLED =>
        \A i \in TickIds :
            ~is_market_time(ticks[i].at) =>
                NoEvent(i) /\ ticks[i].stopped /\ stop_event

\* a tick worth the threshold or more arrived after the close
C25_Witness ==
    \E i \in TickIds :
        /\ ~ticks[i].open
        /\ Notional(i) >= INDIVIDUAL_TRADE_THRESHOLD
        /\ NoEvent(i)
        /\ stop_event

\* C26: a message that is not a well-formed tick causes no persist and no
\* notify call, and no exception escapes on_message, for such a message or
\* for a tick.
C26_MalformedDropped ==
    /\ last_other.persists = 0 /\ last_other.notifies = 0 /\ ~last_other.escaped
    /\ \A i \in TickIds : ~ticks[i].escaped

\* in market hours: a symbol-feed message whose price is no number, the
\* product raising inside the handler, and a tick that produced an event
C26_Witness ==
    /\ ~stop_event
    /\ last_other.kind = "not_numeric"
    /\ \E i \in TickIds : ticks[i].open /\ OneEvent(i)

\* C22: supervisor_loop is always at one of its positions or in its
\* exception handler, and from the handler it goes on to the head of the
\* next iteration, with nothing else changed.
C22_SupervisorSurvivesExceptions ==
    [][ /\ sup_pc' \in SupPositions \cup {"except"}
        /\ (sup_pc = "except" /\ SupStep) =>
              /\ sup_pc' = "top"
              /\ UNCHANGED <<_running_flag, detector, stop_event, workers, auth_due>>
      ]_vars

\* Thread.start() raised in the first start; the supervisor is at the head of
\* the next iteration with a detector and no stream
C22_Witness ==
    /\ sup_pc = "top"
    /\ detector /\ ~_running_flag
    /\ workers = <<>> /\ start_log = <<>>
    /\ window

\* C23: restart_count stays within 0..max_restarts; it changes only by the
\* monitor counting one restart attempt or resetting it to 0, and every
\* attempt is counted, so at most max_restarts attempts lie between two
\* resets.
C23_RestartCountBounded ==
    [][ /\ restart_count' \in 0..max_restarts
        /\ restart_count' # restart_count =>
              (restart_count' = restart_count + 1 \/ restart_count' = 0)
        /\ (mon_pc = "attempt" /\ mon_pc' # "attempt") =>
              restart_count' = restart_count + 1
      ]_vars

\* the fifth restart has been counted and the detector found dead again
C23_Witness ==
    /\ restart_count = max_restarts
    /\ mon_pc = "pause"
    /\ requests = 0

\* C28: at most one detector subprocess is running, whatever the
\* interleaving of delayed_start, monitor_detector and the handlers of
\* /restart-detector and /stop-detector.
C28_AtMostOneDetectorProcess == AliveProcesses <= 1

\* C29: after the monitor has announced the end of auto-restart (limit
\* reached, detector dead again less than 300 seconds after the last
\* restart) it counts no restart attempt until a manual restart has been
\* requested.
C29_NoAutoRestartUntilManual ==
    [][ restart_count' = restart_count + 1 => ~halted ]_vars

\* C30: from the moment the monitor finds the detector dead with the limit
\* reached less than 300 seconds after the last restart, it attempts no
\* restart before 300 seconds have passed, and the first attempt after
\* that is attempt 1.
C30_PauseThenAttemptOne ==
    /\ (paused_at >= 0 /\ resumed_at < 0) => mon_pc \notin {"restart_sleep", "starting"}
    /\ resumed_at >= 0 =>
          /\ resumed_at - paused_at >= 300
          /\ resumed_attempt = 1

\* the monitor has paused, restarted the detector as attempt 1, and the new
\* process is running
C30_Witness ==
    /\ resumed_at >= 0
    /\ resumed_attempt = 1 /\ restart_count = 1
    /\ mon_pc = "sleep"
    /\ detector_process = "running"

\* a call of start_detector ends with a new detector process running
ProcessStarted ==
    /\ detector_starting /\ ~detector_starting'
    /\ \/ detector_process # "running" /\ detector_process' = "running"
       \/ orphans' > orphans

\* C31: once /stop-detector has stopped the detector, no detector process is
\* started until a /restart-detector request is made.
C31_StoppedStaysStopped ==
    [][ ProcessStarted => ~stopped ]_vars

\* C32: for every minute of the day, _inside_window_ist and is_market_time
\* (scheduling enabled) give the same answer.
C32_WindowAndMarketTimeAgree ==
    (SCHEDULING_ENABLED /\ call.fn = "window") =>
        call.inside_window = call.market_time

\* C35: the stored token is reported valid exactly when it is non-empty,
\* not blank, and less than 28800 seconds old.
C35_TokenValidity ==
    call.fn = "validate" =>
        /\ call.valid <=> (call.token \notin {"", " ", "   "} /\ call.age < 28800)
        /\ call.age = 28800 => ~call.valid

\* a token exactly 28800 seconds old
C35_Witness ==
    /\ call.fn = "validate"
    /\ call.token = "eyJ0eXAi" /\ call.age = 28800
    /\ ~call.valid

MessageTypes(messages) == [k \in 1..Len(messages) |-> messages[k].type]

\* C38: the list starts with the daily summary, holds the 3-day summary
\* exactly on Wednesday and Friday and the weekly summary exactly on Friday;
\* it is a single error message when generation raises.
C38_SummaryListByWeekday ==
    call.fn = "format_summary_message" =>
        MessageTypes(call.messages) =
            IF call.raises THEN <<"Error">>
            ELSE IF call.day = "Friday" THEN <<"Daily", "3-Day", "Weekly">>
            ELSE IF call.day = "Wednesday" THEN <<"Daily", "3-Day">>
            ELSE <<"Daily">>

\* a Friday: three messages
C38_Witness ==
    /\ call.fn = "format_summary_message"
    /\ call.day = "Friday" /\ ~call.raises
    /\ Len(call.messages) = 3

\* a step of the model that is a call of check_market_end
MarketEndCall ==
    \/ call' # call
    \/ _market_end_message_sent' # _market_end_message_sent
    \/ end_messages' # end_messages

\* C33: a call of check_market_end made while the market is closed returns
\* True, one made while it is open returns False and resets the flag; a call
\* sends the "Market Session Ended" message only with the flag reset, and
\* sets it, so that no call sends it again before a call has seen the
\* market open.
C33_EndMessageOncePerDay ==
    [][ MarketEndCall =>
          /\ call'.fn = "check_market_end"
          /\ call'.returns = ~is_market_time(clock)
          /\ _market_end_message_sent' = ~is_market_time(clock)
          /\ end_messages' \in {end_messages, end_messages + 1}
          /\ end_messages' # end_messages =>
                (~_market_end_message_sent /\ ~is_market_time(clock))
          /\ call'.sends = (end_messages' # end_messages)
      ]_vars

\* the message has been sent on two days, and the latest call, made with the
\* market closed, did not send it again
C33_Witness ==
    /\ end_messages = 2
    /\ call.fn = "check_market_end"
    /\ call.returns /\ ~call.sends
    /\ _market_end_message_sent

\* C34: when the latest authenticate() of this process was a fresh
\* authentication that saved its token, and that token is still valid, the
\* next authenticate() reuses it and requests no auth code.
C34_SavedTokenReused ==
    [][ ( /\ auth.loaded
          /\ auth'.calls = auth.calls + 1
          /\ auth.last.kind = "fresh" /\ auth.last.saved
          /\ validate_fyers_token_from_json(auth.file_token, auth.file_timestamp,
                                            auth.time) )
        => (auth'.last.kind = "reused" /\ ~auth'.last.requested) ]_vars

\* C36: an iteration of summary_scheduler attempts no scheduled summary on a
\* day on which 'done' has been received; the first iteration of a new day
\* leaves the stop flag set only if 'done' arrives in that very iteration and
\* forgets the last-sent time of the day before; and an iteration at or after
\* SUMMARY_SEND_TIME of a day without 'done' and without a sent summary
\* attempts one.
C36_DoneStopsTheDay ==
    [][ (sched.pc = "loop" /\ sched' # sched) =>
        LET new_day   == sched.last_sent_date # sched.date
            attempted == sched'.attempt # sched.attempt
        IN  /\ attempted => sched'.done_date # sched.date
            /\ new_day => /\ sched'.stop_sending_today = (sched'.done_date = sched.date)
                          /\ sched'.last_sent_time \in {-1, sched.minute}
            /\ ( /\ sched.minute >= SUMMARY_SEND_TIME
                 /\ sched'.done_date # sched.date
                 /\ new_day \/ sched.last_sent_time = -1 )
               => /\ attempted
                  /\ sched'.attempt.date = sched.date
                  /\ sched'.attempt.time = sched.minute ]_vars

\* C36 witness: 'done' was received on day 0, and on day 1 the flag is
\* reset and a summary was attempted at SUMMARY_SEND_TIME.
C36_Witness ==
    /\ sched.pc = "loop"
    /\ sched.done_date = 0
    /\ sched.date = 1
    /\ ~sched.stop_sending_today
    /\ sched.attempt.date = 1
    /\ sched.attempt.time = SUMMARY_SEND_TIME

\* C37: every scheduled send attempt is made at or after SUMMARY_SEND_TIME,
\* and two consecutive attempts of one day are at least
\* SUMMARY_SEND_INTERVAL seconds apart.
C37_AttemptsSpaced ==
    sched.pc = "loop" =>
        /\ sched.attempt.date >= 0 => sched.attempt.time >= SUMMARY_SEND_TIME
        /\ (sched.attempt.date >= 0 /\ sched.prev_attempt.date = sched.attempt.date)
           => (sched.attempt.time - sched.prev_attempt.time) * 60 >= SUMMARY_SEND_INTERVAL

====
